---- MODULE Spec2Model ----
(***************************************************************************)
(* Model of scripts/update-version.js: the version bump tool.  One run of  *)
(* main() is a sequence of steps (argument validation, precondition        *)
(* checks, manifest rewriting, git add / commit / tag) over a repository   *)
(* made of manifest files, a git index, a git HEAD and a set of tags.      *)
(*                                                                         *)
(* Strings whose characters matter (versions, tags, ranges, arguments) are *)
(* sequences of one-character strings.  Package names and dependency keys  *)
(* are sequences of tokens.  The git commands run in the project root (the *)
(* working directory `npm run update-version` gives the script).           *)
(***************************************************************************)
EXTENDS Integers, Sequences, FiniteSets, TLC

\* Longest argument string SpecArgs enumerates in full.
MaxLen == 6
\* Number of invocations of the tool in one behaviour of Spec.
MaxRuns == 2

---------------------------------------------------------------------------
\* Characters and strings

Digits == {"0", "1", "2", "3", "4", "5", "6", "7", "8", "9"}

Letters ==
  {"a", "b", "c", "d", "e", "f", "g", "h", "i", "j", "k", "l", "m",
   "n", "o", "p", "q", "r", "s", "t", "u", "v", "w", "x", "y", "z",
   "A", "B", "C", "D", "E", "F", "G", "H", "I", "J", "K", "L", "M",
   "N", "O", "P", "Q", "R", "S", "T", "U", "V", "W", "X", "Y", "Z"}

\* One representative per character class of the version regex, and "+",
\* which is in none of them.
Alphabet == {"1", ".", "-", "h", "+"}

Strings(n) == UNION {[1..k -> Alphabet] : k \in 0..n}

HelpShort == <<"-", "h">>
HelpLong == <<"-", "-", "h", "e", "l", "p">>

V100 == <<"1", ".", "0", ".", "0">>
V110 == <<"1", ".", "1", ".", "0">>
V12 == <<"1", ".", "2">>
EmptyString == <<>>

\* `v${version}`
TagName(version) == <<"v">> \o version

\* `~${version}`
TildeRange(version) == <<"~">> \o version

\* Variant: the comparison stops one token short of the prefix, as with the
\* prefix '@teamdiverst/fullcalendar' written without its trailing hyphen.
StartsWithShortPrefix(s, p) ==
  /\ Len(s) >= Len(p) - 1
  /\ SubSeq(s, 1, Len(p) - 1) = SubSeq(p, 1, Len(p) - 1)

\* String.prototype.startsWith
StartsWith(s, p) ==
  /\ Len(s) >= Len(p)
  /\ SubSeq(s, 1, Len(p)) = p

\* '@teamdiverst/fullcalendar-'
InternalPrefix == <<"@teamdiverst/", "fullcalendar", "-">>

---------------------------------------------------------------------------
\* The version regex
\*   /^(\d+)\.(\d+)\.(\d+)(?:-([a-zA-Z0-9-]+(?:\.[a-zA-Z0-9-]+)*))?$/
\* run as the automaton the pattern denotes.  The character classes \d,
\* "." , "-" after the third number and [a-zA-Z0-9-] never compete for the
\* same character in the same position, so the match is deterministic.

IsDigit(c) == c \in Digits

IsIdentChar(c) == c \in Letters \/ c \in Digits \/ c = "-"

RegexStep(q, c) ==
  CASE q = "n1" -> IF IsDigit(c) THEN "N1" ELSE "fail"
    [] q = "N1" -> IF IsDigit(c) THEN "N1" ELSE IF c = "." THEN "n2" ELSE "fail"
    [] q = "n2" -> IF IsDigit(c) THEN "N2" ELSE "fail"
    [] q = "N2" -> IF IsDigit(c) THEN "N2" ELSE IF c = "." THEN "n3" ELSE "fail"
    [] q = "n3" -> IF IsDigit(c) THEN "N3" ELSE "fail"
    [] q = "N3" -> IF IsDigit(c) THEN "N3" ELSE IF c = "-" THEN "p" ELSE "fail"
    [] q = "p" -> IF IsIdentChar(c) THEN "P" ELSE "fail"
    [] q = "P" -> IF IsIdentChar(c) THEN "P" ELSE IF c = "." THEN "p" ELSE "fail"
    [] OTHER -> "fail"

RECURSIVE RegexRun(_, _, _)
RegexRun(q, s, k) ==
  IF k > Len(s) THEN q ELSE RegexRun(RegexStep(q, s[k]), s, k + 1)

\* Variant: the pre-release part may end where a segment is still expected,
\* as with `*` written for the `+` of the segment.
SemVerRegexTestLoose(s) == RegexRun("n1", s, 1) \in {"N3", "P", "p"}

SemVerRegexTest(s) == RegexRun("n1", s, 1) \in {"N3", "P"}

---------------------------------------------------------------------------
\* Manifests and files

DepTypes == {"dependencies", "devDependencies", "peerDependencies"}

KeyCore == <<"@teamdiverst/", "fullcalendar", "-", "core">>
KeyBare == <<"@teamdiverst/", "fullcalendar">>
KeyLodash == <<"lodash">>

RangeOld == TildeRange(V100)
RangeAny == <<"*">>

\* The parsed content of a manifest: the value JSON.parse returns.
DataOld ==
  [version |-> V100,
   deps |-> [t \in {"dependencies", "peerDependencies"} |->
               IF t = "dependencies"
                 THEN (KeyCore :> RangeOld) @@ (KeyLodash :> RangeOld)
                 ELSE (KeyCore :> RangeAny) @@ (KeyBare :> RangeOld)],
   extra |-> "name, scripts"]

NoFile == [exists |-> FALSE, fmt |-> "", data |-> [version |-> EmptyString, deps |-> <<>>, extra |-> ""]]

\* JSON.parse(fs.readFileSync(file, 'utf8'))
JSONparse(file) == file.data

\* JSON.stringify(json, null, 2) + '\n'
JSONstringify2(json) == [exists |-> TRUE, fmt |-> "indent2+newline", data |-> json]

\* A manifest as a developer left it: some other layout of the same JSON.
FileOld == [exists |-> TRUE, fmt |-> "tabs", data |-> DataOld]

\* An unrelated tracked file of the repository, and an edit of it.
OtherV1 == [exists |-> TRUE, fmt |-> "text", data |-> [version |-> EmptyString, deps |-> <<>>, extra |-> "v1"]]
OtherV2 == [exists |-> TRUE, fmt |-> "text", data |-> [version |-> EmptyString, deps |-> <<>>, extra |-> "v2"]]

NameCore == <<"core">>
NameHidden == <<".", "cache">>
NameNotes == <<"notes">>
NameBundle == <<"bundle">>
EntryNames == {NameCore, NameHidden, NameNotes}

RootPath == <<"package.json">>
PkgPath(name) == <<"packages">> \o name \o <<"package.json">>
BundlePath == <<"bundle", "package.json">>
OtherPath == <<"README.md">>

ManifestPaths == {RootPath, BundlePath} \cup {PkgPath(n) : n \in EntryNames}
Paths == ManifestPaths \cup {OtherPath}


\* Variant: the dependencies are rewritten, the version field is not.
updatePackageJsonFileKeepVersion(file, version) ==
  LET json == file.data
      newDeps ==
        [t \in DOMAIN json.deps |->
           [dep \in DOMAIN json.deps[t] |->
              IF StartsWith(dep, InternalPrefix)
                THEN TildeRange(version)
                ELSE json.deps[t][dep]]]
  IN [exists |-> TRUE, fmt |-> "indent2+newline", data |-> [json EXCEPT !.deps = newDeps]]

\* updatePackageJsonFile: the new content of a package manifest.
updatePackageJsonFile(file, version) ==
  LET json == JSONparse(file)
      newDeps ==
        [t \in DOMAIN json.deps |->
           [dep \in DOMAIN json.deps[t] |->
              IF StartsWith(dep, InternalPrefix)
                THEN TildeRange(version)
                ELSE json.deps[t][dep]]]
  IN JSONstringify2([json EXCEPT !.version = version, !.deps = newDeps])

\* main, "Update root package.json": the new content of the root manifest.
updateRootPackageJson(file, version) ==
  LET rootData == JSONparse(file)
  IN JSONstringify2([rootData EXCEPT !.version = version])

\* Manifests that already carry version 1.1.0 in the tool's own layout.
PkgNew == updatePackageJsonFile(FileOld, V110)
RootNew == updateRootPackageJson(FileOld, V110)

---------------------------------------------------------------------------
\* State

VARIABLES
  args,          \* process.argv.slice(2)
  pc,            \* position of main()
  exitCode,      \* the exit code of the run, -1 while it runs
  outcome,       \* why the run ended
  pkgsKind,      \* what <root>/packages is: "none", "file" or "dir"
  entries,       \* entries of <root>/packages: name -> "file" or "dir"
  files,         \* working tree: path -> file content
  index,         \* git index: path -> file content
  head,          \* git HEAD commit: path -> file content
  tags,          \* git tags
  commits,       \* messages of the commits created, oldest first
  oldVersion,    \* main's oldVersion
  packages,      \* main's packages
  i,             \* position of packages.forEach
  written,       \* paths written by fs.writeFileSync in this run
  staged,        \* paths git add put in the index in this run
  gitRan,        \* git commands started in this run
  gitFailed,     \* the git command of this run that exited non-zero, and why
  filesAtStart,  \* the working tree when this run started
  tagsAtStart,   \* the tags when this run started
  commitsAtStart,\* the commits when this run started
  cleanAtStart,  \* whether working tree, index and HEAD agreed at the start
  runs,          \* number of runs started
  prevOutcome    \* outcome of the previous run, or "none"

vars ==
  <<args, pc, exitCode, outcome, pkgsKind, entries, files, index, head, tags,
    commits, oldVersion, packages, i, written, staged, gitRan, gitFailed,
    filesAtStart, tagsAtStart, commitsAtStart, cleanAtStart, runs,
    prevOutcome>>

workspace == <<pkgsKind, entries>>
repo == <<files, index, head, tags, commits>>
locals == <<oldVersion, packages, i>>
history == <<filesAtStart, tagsAtStart, commitsAtStart, cleanAtStart, runs, prevOutcome>>

version == IF Len(args) >= 1 THEN args[1] ELSE EmptyString
tag == TagName(version)

---------------------------------------------------------------------------
\* The file system and git, as the script's calls see them

\* fs.existsSync(path)
existsSync(path) == files[path].exists

\* findProjectRoot: the directories from the script's own upward, the
\* filesystem root last; the loop ends before it examines the last one.
\* The result is the position of the project root, 0 when the walk throws.
Ancestors ==
  << [manifest |-> FALSE, packages |-> FALSE],
     [manifest |-> existsSync(RootPath), packages |-> pkgsKind # "none"],
     [manifest |-> FALSE, packages |-> FALSE] >>

RECURSIVE WalkUp(_, _)
WalkUp(dirs, k) ==
  IF k >= Len(dirs) THEN 0
  ELSE IF dirs[k].manifest /\ dirs[k].packages THEN k
  ELSE WalkUp(dirs, k + 1)

findProjectRoot == WalkUp(Ancestors, 1)

\* fs.readdirSync(packagesDir): the entries in the order readdir gives them.
EntryOrder == <<NameHidden, NameCore, NameNotes>>
IsEntry(name) == name \in DOMAIN entries
readdirSync == SelectSeq(EntryOrder, IsEntry)

\* .filter(dir => fs.statSync(...).isDirectory())
IsDirectory(name) == entries[name] = "dir"

\* .map(pkg => ({name: pkg, dir: path.join(packagesDir, pkg)}))
PackageOf(name) == [name |-> name, dir |-> <<"packages">> \o name]

\* main, "Find packages": the list after the bundle package is pushed.
DiscoverPackages ==
  LET dirs == SelectSeq(readdirSync, IsDirectory)
  IN [k \in 1..Len(dirs) |-> PackageOf(dirs[k])]
       \o << [name |-> NameBundle, dir |-> <<"bundle">>] >>

\* path.join(dir, 'package.json')
PackageFile(pkg) == pkg.dir \o <<"package.json">>

\* Variant: untracked files are not reported, as with --untracked-files=no.
StatusPorcelainTrackedOnly(f, ix, hd) ==
  {p \in Paths : (ix[p].exists \/ hd[p].exists) /\ (f[p] # ix[p] \/ ix[p] # hd[p])}

\* git status --porcelain: the paths with a staged, unstaged or untracked
\* difference.
StatusPorcelain(f, ix, hd) == {p \in Paths : f[p] # ix[p] \/ ix[p] # hd[p]}

\* Variant: the pattern is the bare version, without the "v" of the tag.
TagListBareVersion(ts, t) == {x \in ts : x = Tail(t)}

\* git tag -l <tag>: the tags matching the pattern, which has no wildcard.
TagList(ts, t) == {x \in ts : x = t}

\* The shell expands packages/*/package.json in `git add`: `*` matches no
\* name that begins with a dot, and only paths that exist.
IsHiddenName(name) == name[1] = "."
ShellGlob(f) ==
  {PkgPath(n) : n \in {m \in EntryNames : ~IsHiddenName(m) /\ f[PkgPath(m)].exists}}

\* git add package.json packages/*/package.json bundle/package.json
\* A pattern the shell could not expand reaches git as it is, and git
\* matches it against every path it knows.  git add stages nothing and
\* exits 128 when one of its pathspecs matches no file.
GitAddPlan(f, ix) ==
  LET known(p) == f[p].exists \/ ix[p].exists
      expanded == ShellGlob(f)
      literal == {RootPath, BundlePath} \cup expanded
      byGit == IF expanded = {}
                 THEN {p \in {PkgPath(n) : n \in EntryNames} : known(p)}
                 ELSE {}
      matched == /\ \A p \in literal : known(p)
                 /\ expanded = {} => byGit # {}
  IN [ok |-> matched, paths |-> literal \cup byGit]


---------------------------------------------------------------------------
\* Initial states: a repository and a command line

ArgSamples ==
  { <<>>, <<EmptyString>>, <<V110>>, <<V12>>, <<V110, HelpShort>>, <<HelpLong>> }

\* The packages directory: what `core` is, and whether the hidden directory
\* is there.  `notes` is a plain file of packages/.
CoreStates == {"absent", "dir", "old", "new"}
HiddenStates == {"absent", "old"}

EntriesOf(core, hidden) ==
  [n \in {NameNotes}
        \cup (IF core = "absent" THEN {} ELSE {NameCore})
        \cup (IF hidden = "absent" THEN {} ELSE {NameHidden})
     |-> IF n = NameNotes THEN "file" ELSE "dir"]

TreeOf(root, core, hidden, bundle, other) ==
  [p \in Paths |->
     IF p = RootPath THEN root
     ELSE IF p = BundlePath THEN bundle
     ELSE IF p = OtherPath THEN other
     ELSE IF p = PkgPath(NameCore)
       THEN (IF core = "old" THEN FileOld ELSE IF core = "new" THEN PkgNew ELSE NoFile)
     ELSE IF p = PkgPath(NameHidden)
       THEN (IF hidden = "old" THEN FileOld ELSE NoFile)
     ELSE NoFile]

TreeStates == {"clean", "modified", "staged", "untracked"}

TagSets == { {}, {TagName(V100)}, {TagName(V100), TagName(V110)} }

\* No git command has failed.
NoFailure == [cmd |-> "", why |-> ""]

InitRun ==
  /\ pc = "main"
  /\ exitCode = -1
  /\ outcome = "running"
  /\ oldVersion = EmptyString
  /\ packages = <<>>
  /\ i = 1
  /\ written = {}
  /\ staged = {}
  /\ gitRan = {}
  /\ gitFailed = NoFailure
  /\ filesAtStart = files
  /\ tagsAtStart = tags
  /\ commitsAtStart = commits
  /\ cleanAtStart = (files = index /\ index = head)
  /\ runs = 1
  /\ prevOutcome = "none"

InitRepo(root, kind, core, hidden, bundle, tree) ==
  LET base == TreeOf(root, core, hidden, bundle, OtherV1)
      edited == TreeOf(root, core, hidden, bundle, OtherV2)
      without == TreeOf(root, core, hidden, bundle, NoFile)
  IN /\ pkgsKind = kind
     /\ entries = IF kind = "dir" THEN EntriesOf(core, hidden) ELSE <<>>
     /\ files = IF tree \in {"modified", "staged"} THEN edited ELSE base
     /\ index = IF tree = "staged" THEN edited
                ELSE IF tree = "untracked" THEN without ELSE base
     /\ head = IF tree = "untracked" THEN without ELSE base
     /\ commits = <<>>

Init ==
  /\ args \in ArgSamples
  /\ tags \in TagSets
  /\ \E root \in {FileOld, RootNew}, bundle \in {NoFile, FileOld, PkgNew},
        tree \in TreeStates :
       \/ \E kind \in {"none", "file"} :
            InitRepo(root, kind, "absent", "absent", bundle, tree)
       \/ \E core \in CoreStates, hidden \in HiddenStates :
            InitRepo(root, "dir", core, hidden, bundle, tree)
  /\ InitRun

---------------------------------------------------------------------------
\* One run of main()

\* process.exit(code), and the end of main() after the last console.log
Exit(code, why) ==
  /\ pc' = "done"
  /\ exitCode' = code
  /\ outcome' = why

\* Variant: only the first argument is looked at.
HelpRequestedFirstOnly(a) == Len(a) >= 1 /\ (a[1] = HelpShort \/ a[1] = HelpLong)

\* args.includes('-h') || args.includes('--help')
HelpRequested(a) == \E k \in 1..Len(a) : a[k] = HelpShort \/ a[k] = HelpLong

\* !version: no argument, or the empty string
NoVersion(a) == Len(a) = 0 \/ a[1] = EmptyString

\* main, lines 65-85: help, missing version, malformed version
ParseArgs ==
  /\ pc = "main"
  /\ IF HelpRequested(args) THEN Exit(0, "help")
     ELSE IF NoVersion(args) THEN Exit(1, "noversion")
     ELSE IF ~SemVerRegexTest(version) THEN Exit(1, "invalid")
     ELSE pc' = "findProjectRoot" /\ UNCHANGED <<exitCode, outcome>>
  /\ UNCHANGED <<args, workspace, repo, locals, written, staged, gitRan,
                 gitFailed, history>>

\* main, lines 87-90: findProjectRoot() throws into the catch block
FindRoot ==
  /\ pc = "findProjectRoot"
  /\ IF findProjectRoot = 0 THEN Exit(1, "error")
     ELSE pc' = "gitStatus" /\ UNCHANGED <<exitCode, outcome>>
  /\ UNCHANGED <<args, workspace, repo, locals, written, staged, gitRan,
                 gitFailed, history>>

\* main, lines 92-97: execSync('git status --porcelain').trim()
CheckStatus ==
  /\ pc = "gitStatus"
  /\ gitRan' = gitRan \cup {"status"}
  /\ \E ok \in BOOLEAN :
       IF ~ok THEN Exit(1, "error") /\ gitFailed' = [cmd |-> "status", why |-> "git"]
       ELSE /\ gitFailed' = gitFailed
            /\ IF StatusPorcelain(files, index, head) # {}
                 THEN Exit(1, "dirty")
                 ELSE pc' = "gitTagList" /\ UNCHANGED <<exitCode, outcome>>
  /\ UNCHANGED <<args, workspace, repo, locals, written, staged, history>>

\* main, lines 99-103: execSync(`git tag -l ${tag}`).trim()
CheckTag ==
  /\ pc = "gitTagList"
  /\ gitRan' = gitRan \cup {"tag -l"}
  /\ \E ok \in BOOLEAN :
       IF ~ok THEN Exit(1, "error") /\ gitFailed' = [cmd |-> "tag -l", why |-> "git"]
       ELSE /\ gitFailed' = gitFailed
            /\ IF TagList(tags, tag) # {}
                 THEN Exit(1, "tagexists")
                 ELSE pc' = "updateRoot" /\ UNCHANGED <<exitCode, outcome>>
  /\ UNCHANGED <<args, workspace, repo, locals, written, staged, history>>

\* main, lines 105-114: rewrite the root manifest
UpdateRoot ==
  /\ pc = "updateRoot"
  /\ IF existsSync(RootPath)
       THEN /\ oldVersion' = JSONparse(files[RootPath]).version
            /\ files' = [files EXCEPT ![RootPath] = updateRootPackageJson(@, version)]
            /\ written' = written \cup {RootPath}
       ELSE UNCHANGED <<oldVersion, files, written>>
  /\ pc' = "findPackages"
  /\ UNCHANGED <<args, exitCode, outcome, workspace, index, head, tags, commits,
                 packages, i, staged, gitRan, gitFailed, history>>

\* main, lines 116-122: readdirSync throws when packages is not a directory
FindPackages ==
  /\ pc = "findPackages"
  /\ IF pkgsKind # "dir"
       THEN Exit(1, "error") /\ UNCHANGED <<packages, i>>
       ELSE /\ packages' = DiscoverPackages
            /\ i' = 1
            /\ pc' = "updatePackages"
            /\ UNCHANGED <<exitCode, outcome>>
  /\ UNCHANGED <<args, workspace, repo, oldVersion, written, staged, gitRan,
                 gitFailed, history>>

\* main, lines 124-130: one turn of packages.forEach
UpdatePackage ==
  /\ pc = "updatePackages"
  /\ i <= Len(packages)
  /\ LET packageFile == PackageFile(packages[i])
     IN IF existsSync(packageFile)
          THEN /\ files' = [files EXCEPT ![packageFile] = updatePackageJsonFile(@, version)]
               /\ written' = written \cup {packageFile}
          ELSE UNCHANGED <<files, written>>
  /\ i' = i + 1
  /\ pc' = IF i = Len(packages) THEN "gitAdd" ELSE pc
  /\ UNCHANGED <<args, exitCode, outcome, workspace, index, head, tags, commits,
                 oldVersion, packages, staged, gitRan, gitFailed, history>>

\* Variant: the exit status of git add is not looked at, and the run goes on
\* to the commit.
GitAddUnchecked ==
  /\ pc = "gitAdd"
  /\ gitRan' = gitRan \cup {"add"}
  /\ LET plan == GitAddPlan(files, index)
     IN \E ok \in BOOLEAN :
          IF ok /\ plan.ok
            THEN /\ index' = [p \in Paths |-> IF p \in plan.paths THEN files[p] ELSE index[p]]
                 /\ staged' = plan.paths
                 /\ gitFailed' = gitFailed
            ELSE /\ gitFailed' = [cmd |-> "add", why |-> IF ok THEN "pathspec" ELSE "git"]
                 /\ UNCHANGED <<index, staged>>
  /\ pc' = "gitCommit"
  /\ UNCHANGED <<args, exitCode, outcome, workspace, files, head, tags, commits,
                 locals, written, history>>

\* main, lines 132-133: execSync('git add ...') throws on a non-zero exit
GitAdd ==
  /\ pc = "gitAdd"
  /\ gitRan' = gitRan \cup {"add"}
  /\ LET plan == GitAddPlan(files, index)
     IN \E ok \in BOOLEAN :
          IF ok /\ plan.ok
            THEN /\ index' = [p \in Paths |-> IF p \in plan.paths THEN files[p] ELSE index[p]]
                 /\ staged' = plan.paths
                 /\ gitFailed' = gitFailed
                 /\ pc' = "gitCommit"
                 /\ UNCHANGED <<exitCode, outcome>>
            ELSE /\ Exit(1, "error")
                 /\ gitFailed' = [cmd |-> "add", why |-> IF ok THEN "pathspec" ELSE "git"]
                 /\ UNCHANGED <<index, staged>>
  /\ UNCHANGED <<args, workspace, files, head, tags, commits, locals, written,
                 history>>

\* main, lines 134-136: git commit exits non-zero when nothing is staged
GitCommit ==
  /\ pc = "gitCommit"
  /\ gitRan' = gitRan \cup {"commit"}
  /\ \E ok \in BOOLEAN :
       IF ok /\ index # head
         THEN /\ head' = index
              /\ commits' = Append(commits, [from |-> oldVersion, to |-> version])
              /\ gitFailed' = gitFailed
              /\ pc' = "gitTag"
              /\ UNCHANGED <<exitCode, outcome>>
         ELSE /\ Exit(1, "error")
              /\ gitFailed' = [cmd |-> "commit", why |-> IF ok THEN "nothing to commit" ELSE "git"]
              /\ UNCHANGED <<head, commits>>
  /\ UNCHANGED <<args, workspace, files, index, tags, locals, written, staged,
                 history>>

\* main, lines 138-141: git tag exits non-zero when the tag exists
GitTag ==
  /\ pc = "gitTag"
  /\ gitRan' = gitRan \cup {"tag"}
  /\ \E ok \in BOOLEAN :
       IF ok /\ tag \notin tags
         THEN /\ tags' = tags \cup {tag}
              /\ gitFailed' = gitFailed
              /\ Exit(0, "success")
         ELSE /\ Exit(1, "error")
              /\ gitFailed' = [cmd |-> "tag", why |-> IF ok THEN "tag exists" ELSE "git"]
              /\ UNCHANGED tags
  /\ UNCHANGED <<args, workspace, files, index, head, commits, locals, written,
                 staged, history>>

\* The tool is run again with the same command line, nothing else having
\* touched the repository in between.
Invoke ==
  /\ pc = "done"
  /\ runs < MaxRuns
  /\ runs' = runs + 1
  /\ prevOutcome' = outcome
  /\ pc' = "main"
  /\ exitCode' = -1
  /\ outcome' = "running"
  /\ oldVersion' = EmptyString
  /\ packages' = <<>>
  /\ i' = 1
  /\ written' = {}
  /\ staged' = {}
  /\ gitRan' = {}
  /\ gitFailed' = NoFailure
  /\ filesAtStart' = files
  /\ tagsAtStart' = tags
  /\ commitsAtStart' = commits
  /\ cleanAtStart' = (files = index /\ index = head)
  /\ UNCHANGED <<args, workspace, repo>>

Run ==
  \/ ParseArgs
  \/ FindRoot
  \/ CheckStatus
  \/ CheckTag
  \/ UpdateRoot
  \/ FindPackages
  \/ UpdatePackage
  \/ GitAdd
  \/ GitCommit
  \/ GitTag

Next == Run \/ Invoke

Spec == Init /\ [][Next]_vars

\* Longer argument strings: pre-release versions and near misses of them.
LongArgs ==
  { HelpLong,
    <<"1", ".", "2", ".", "3", "-", "h">>,
    <<"1", ".", "2", ".", "3", "-", "h", ".", "1">>,
    <<"1", ".", "2", ".", "3", "-", "-", ".", "h", "1", "-">>,
    <<"1", ".", "2", ".", "3", "-", "h", ".">>,
    <<"1", ".", "2", ".", "3", "-", "h", ".", ".", "1">>,
    <<"1", ".", "2", ".", "3", "-", "h", "+", "1">>,
    <<"1", ".", "2", ".", "3", ".", "4">>,
    <<"1", "0", ".", "2", "0", ".", "3", "0">> }

\* Every argument string up to MaxLen characters, and the longer ones, given
\* as the only argument to one run on a clean repository without the tag.
InitArgs ==
  /\ \E s \in Strings(MaxLen) \cup LongArgs : args = <<s>>
  /\ tags = {TagName(V100)}
  /\ InitRepo(FileOld, "dir", "old", "absent", FileOld, "clean")
  /\ InitRun

SpecArgs == InitArgs /\ [][Run]_vars


---------------------------------------------------------------------------
\* Vocabulary of the properties

Target == args[1]
TargetTag == <<"v">> \o args[1]
TargetRange == <<"~">> \o args[1]

Done == pc = "done"

\* The run got past argument validation.
Accepted == pc # "main" /\ outcome \notin {"help", "noversion", "invalid"}

HelpFlags == { <<"-", "h">>, <<"-", "-", "h", "e", "l", "p">> }
HelpAmongArgs == \E k \in DOMAIN args : args[k] \in HelpFlags

NothingWritten ==
  /\ written = {}
  /\ files = filesAtStart

NoCommitNoTag ==
  /\ commits = commitsAtStart
  /\ tags = tagsAtStart
  /\ gitRan \cap {"add", "commit", "tag"} = {}

ManifestsAtStart == {p \in ManifestPaths : filesAtStart[p].exists}

IsInternalKey(k) ==
  /\ Len(k) >= 3
  /\ k[1] = "@teamdiverst/" /\ k[2] = "fullcalendar" /\ k[3] = "-"

\* The version grammar, said without the automaton: three dot-separated
\* digit runs, then optionally a hyphen and dot-separated non-empty segments
\* of letters, digits and hyphens.
IsDigitRun(s) == Len(s) >= 1 /\ \A k \in 1..Len(s) : s[k] \in Digits

IsCore(s) ==
  \E a, b \in 1..Len(s) :
    /\ a < b
    /\ s[a] = "." /\ s[b] = "."
    /\ IsDigitRun(SubSeq(s, 1, a - 1))
    /\ IsDigitRun(SubSeq(s, a + 1, b - 1))
    /\ IsDigitRun(SubSeq(s, b + 1, Len(s)))

IsPreRelease(s) ==
  /\ Len(s) >= 1
  /\ \A k \in 1..Len(s) : s[k] \in Letters \cup Digits \cup {"-", "."}
  /\ s[1] # "." /\ s[Len(s)] # "."
  /\ \A k \in 1..(Len(s) - 1) : ~(s[k] = "." /\ s[k + 1] = ".")

MatchesGrammar(s) ==
  \/ IsCore(s)
  \/ \E h \in 1..Len(s) :
       /\ s[h] = "-"
       /\ IsCore(SubSeq(s, 1, h - 1))
       /\ IsPreRelease(SubSeq(s, h + 1, Len(s)))

---------------------------------------------------------------------------
\* Properties

\* C1: a run whose git status query reports an entry writes no file, runs no
\* git add / commit / tag, and ends with exit code 1.
C1_DirtyTreeNoChange ==
  (~cleanAtStart /\ "status" \in gitRan /\ gitFailed.cmd # "status") =>
    /\ Done /\ exitCode = 1
    /\ NothingWritten
    /\ NoCommitNoTag

C1_Witness ==
  /\ Done /\ outcome = "dirty"
  /\ Target = V110
  /\ files[OtherPath].exists /\ ~index[OtherPath].exists

\* C2: a run with a valid version on a clean tree in which the tag
\* v<version> exists writes no file, creates no commit and no tag, and ends
\* with exit code 1.
C2_ExistingTagNoChange ==
  (Accepted /\ cleanAtStart /\ TargetTag \in tagsAtStart) =>
    /\ NothingWritten
    /\ NoCommitNoTag
    /\ pc \in {"findProjectRoot", "gitStatus", "gitTagList", "done"}
    /\ Done => exitCode = 1

C2_Witness ==
  /\ Done /\ outcome = "tagexists"
  /\ cleanAtStart
  /\ TargetTag \in tagsAtStart

\* C3: after a successful run every manifest of the workspace (root, each
\* packages/ subdirectory that has one, bundle) has the target version.
C3_AllVersionsSet ==
  (Done /\ outcome = "success") =>
    \A p \in ManifestPaths : files[p].exists => files[p].data.version = Target

C3_Witness ==
  /\ Done /\ outcome = "success"
  /\ filesAtStart[PkgPath(NameCore)] = FileOld
  /\ filesAtStart[PkgPath(NameHidden)] = FileOld
  /\ filesAtStart[BundlePath] = FileOld
  /\ filesAtStart[RootPath] = FileOld

\* C4: after a successful run every internal-prefix dependency entry of
\* every manifest, the root manifest included, is ~<target version>.
C4_AllInternalRangesSet ==
  (Done /\ outcome = "success") =>
    \A p \in ManifestPaths :
      files[p].exists =>
        \A t \in DOMAIN files[p].data.deps :
          \A k \in DOMAIN files[p].data.deps[t] :
            IsInternalKey(k) => files[p].data.deps[t][k] = TargetRange

\* C5, as amended: in a run with neither -h nor --help among its arguments,
\* the first argument is accepted exactly when it matches the grammar, and
\* one that does not match is rejected with exit code 1, nothing written
\* and no git command run.
C5_AcceptsExactlyGrammar ==
  (pc # "main" /\ Len(args) >= 1 /\ ~HelpAmongArgs) =>
    /\ Accepted <=> MatchesGrammar(Target)
    /\ ~MatchesGrammar(Target) =>
         /\ Done /\ exitCode = 1
         /\ NothingWritten
         /\ gitRan = {}

C5_Witness ==
  /\ Done /\ outcome = "invalid" /\ exitCode = 1
  /\ Target = <<"1", ".", "1", ".", "1", "-">>

\* C5, as stated: every argument string is accepted exactly when it matches
\* the grammar, and every string that does not match is rejected with exit
\* code 1, nothing written and no git command run.
C5_Original ==
  (pc # "main" /\ Len(args) >= 1) =>
    /\ Accepted <=> MatchesGrammar(Target)
    /\ ~MatchesGrammar(Target) =>
         /\ Done /\ exitCode = 1
         /\ NothingWritten
         /\ gitRan = {}

\* C6: the exit code is 0 exactly when help was requested anywhere among the
\* arguments (and then nothing is written and no git command is run) or all
\* stages through the creation of the tag completed; otherwise it is 1.
C6_ExitCode ==
  Done =>
    /\ exitCode \in {0, 1}
    /\ exitCode = 0 <=>
         \/ HelpAmongArgs
         \/ /\ {"add", "commit", "tag"} \subseteq gitRan
            /\ gitFailed.cmd = ""
            /\ Len(commits) = Len(commitsAtStart) + 1
            /\ tags = tagsAtStart \cup {TargetTag}
            /\ TargetTag \notin tagsAtStart
    /\ HelpAmongArgs => NothingWritten /\ gitRan = {}

C6_Witness ==
  /\ Done /\ exitCode = 0
  /\ args = <<V110, HelpShort>>
  /\ ~cleanAtStart

\* C7: a second run with the version of a successful first run passes the
\* clean-tree check, fails at the existing-tag check, exits non-zero and
\* changes nothing.
C7_SecondRunFailsAtTag ==
  (runs = 2 /\ prevOutcome = "success" /\ Done /\ gitFailed.cmd = "") =>
    /\ outcome = "tagexists"
    /\ exitCode = 1
    /\ NothingWritten
    /\ NoCommitNoTag

\* C8: when git add, commit or tag exits non-zero the run ends there with
\* exit code 1, no later git step runs, and every manifest the run rewrote
\* keeps its new content.
C8_GitFailureStops ==
  (gitFailed.cmd \in {"add", "commit", "tag"}) =>
    /\ Done /\ exitCode = 1
    /\ gitFailed.cmd = "add" => gitRan \cap {"commit", "tag"} = {}
    /\ gitFailed.cmd = "commit" => "tag" \notin gitRan
    /\ gitFailed.cmd \in {"add", "commit"} => commits = commitsAtStart
    /\ tags = tagsAtStart
    /\ written = ManifestsAtStart
    /\ \A p \in written :
         /\ files[p].fmt = "indent2+newline"
         /\ files[p].data.version = Target

C8_Witness ==
  /\ gitFailed.cmd = "commit"
  /\ filesAtStart[RootPath] = FileOld
  /\ files[RootPath] # filesAtStart[RootPath]

\* C9: in a run that reaches git add, the paths staged are the manifests
\* the run wrote, and a package directory without a manifest, bundle
\* included, does not make git add fail.
C9_StagedEqualsWritten ==
  ("add" \in gitRan /\ gitFailed.why # "git") =>
    /\ gitFailed.cmd # "add"
    /\ staged = written

\* C10: a run changes, in a manifest, only the version field and the values
\* of internal-prefix dependency keys; it adds and removes no key, changes
\* no other field, touches no other file and creates no manifest.
C10_Frame ==
  \A p \in Paths :
    /\ ~filesAtStart[p].exists => files[p] = filesAtStart[p]
    /\ p \notin written => files[p] = filesAtStart[p]
    /\ p \in written =>
         LET a == filesAtStart[p].data
             b == files[p].data
         IN /\ p \in ManifestPaths
            /\ b.extra = a.extra
            /\ DOMAIN b.deps = DOMAIN a.deps
            /\ \A t \in DOMAIN a.deps :
                 /\ DOMAIN b.deps[t] = DOMAIN a.deps[t]
                 /\ \A k \in DOMAIN a.deps[t] :
                      ~IsInternalKey(k) => b.deps[t][k] = a.deps[t][k]

C10_Witness ==
  /\ PkgPath(NameCore) \in written
  /\ filesAtStart[PkgPath(NameCore)] = FileOld
  /\ files[PkgPath(NameCore)].data.deps["dependencies"][KeyCore] = TargetRange
  /\ files[PkgPath(NameCore)].data.deps["peerDependencies"][KeyBare] = RangeOld
  /\ ~filesAtStart[BundlePath].exists

====
